---- MODULE Spec2Model ----
(***************************************************************************)
(* CudaBondedUtilities (platforms/cuda2): registration of bonded terms,    *)
(* packing of their atom indices, synthesis of the fused kernel            *)
(* computeBondedForces, and the execution of that kernel by the lanes of   *)
(* one launch.                                                             *)
(*                                                                         *)
(* Spec       : the host object under any sequence of its public calls.    *)
(* SpecKernel : one launch of the kernel text that initialize emits for a  *)
(*              freshly constructed object (register, initialize, launch). *)
(***************************************************************************)
EXTENDS Integers, Sequences, FiniteSets, TLC

(***************************************************************************)
(* Bounds of the model.                                                    *)
(***************************************************************************)
MaxTerms == 2        \* terms registered over the object's life (host)
MaxArgs == 2         \* addArgument calls
MaxPrefix == 1       \* addPrefixCode calls
MaxBlocks == 2       \* index blocks one atomIndices entry may collect
NumLanes == 2        \* blockDim.x*gridDim.x of a launch

\* context.getPaddedNumAtoms(): atoms are 0..PaddedNumAtoms-1
PaddedNumAtoms == 2

(***************************************************************************)
(* Small helpers.                                                          *)
(***************************************************************************)
Max(a, b) == IF a >= b THEN a ELSE b

Atoms == 0..(PaddedNumAtoms - 1)

Groups == {0, 1}

\* The bitmasks over the bits of Groups.
GroupMasks == {0, 1, 2, 3}

\* The bitmasks computeInteractions is called with.
ComputeMasks == {0, 2}

Snippets == {"snipA", "snipB"}

ArgTypes == {"real", "int2"}

PrefixTexts == {"#define K 1\n"}

None == [id |-> 0]

\* An indeterminate value: what a read outside a vector's elements yields.
Indeterminate == -1

\* The value of an identifier the kernel text never declares.
Undeclared == -2

RECURSIVE Concat(_)
\* The concatenation of a sequence of sequences.
Concat(ss) == IF ss = <<>> THEN <<>> ELSE Head(ss) \o Concat(Tail(ss))

RECURSIVE BitAnd(_, _)
\* a & b on non-negative ints.
BitAnd(a, b) ==
    IF a = 0 \/ b = 0 THEN 0
    ELSE (a % 2) * (b % 2) + 2 * BitAnd(a \div 2, b \div 2)

\* vector<int> of a bond record: the b-th of a term of the given arity.
BondRecord(arity, b) == [s \in 1..arity |-> ((b - 1) + (s - 1)) % PaddedNumAtoms]

\* vector<vector<int> >: numBonds bond records of one arity.
BondList(arity, numBonds) == [b \in 1..numBonds |-> BondRecord(arity, b)]

\* The (atoms, source, group) arguments addInteraction is called with: an
\* empty list, and terms of arity 1, 4 and 5.
TermInputs ==
    {<<<<>>, "snipA", 0>>,
     <<BondList(1, 2), "snipA", 0>>,
     <<BondList(4, 2), "snipB", 1>>,
     <<BondList(5, 1), "snipB", 0>>}

(***************************************************************************)
(* Decimal rendering of a non-negative int, as a sequence of digits.       *)
(***************************************************************************)
Digit(d) == <<"0", "1", "2", "3", "4", "5", "6", "7", "8", "9">>[d + 1]

RECURSIVE intToString(_)
\* CudaContext::intToString
intToString(n) ==
    IF n < 10 THEN <<Digit(n)>> ELSE intToString(n \div 10) \o <<Digit(n % 10)>>

\* ostream << int
StreamInt(n) == intToString(n)

(***************************************************************************)
(* State of the object and of the device buffers it works on.              *)
(***************************************************************************)
VARIABLES
    forceAtoms,     \* vector<vector<vector<int> > >
    forceSource,    \* vector<string>
    forceGroup,     \* vector<int>
    arguments,      \* vector<CUdeviceptr>
    argTypes,       \* vector<string>
    prefixCode,     \* vector<string>
    atomIndices,    \* vector<vector<CudaArray*> >
    maxBonds,       \* int
    kernel,         \* CUfunction: None, or the compiled text and its handle id
    forceBuffer,    \* long forceBuffer[3*PADDED_NUM_ATOMS], as 64-bit words
    energyBuffer,   \* real energyBuffer[NumLanes], in halves
    lastCall,       \* the call just made, its arguments and its return value
    argumentCalls,  \* the addArgument calls made: type given, name returned
    groups,         \* the kernel's int groups argument of the launch
    lane,           \* the position of each lane in the kernel body
    scattered       \* per force-buffer slot, the increments added so far

hostVars ==
    <<forceAtoms, forceSource, forceGroup, arguments, argTypes, prefixCode,
      atomIndices, maxBonds, kernel>>

bufferVars == <<forceBuffer, energyBuffer>>

launchVars == <<groups, lane, scattered>>

vars == <<hostVars, bufferVars, lastCall, argumentCalls, launchVars>>

(***************************************************************************)
(* 64-bit integers (CUDA long), little-endian in four 16-bit limbs, with   *)
(* two's-complement wrap-around.                                           *)
(***************************************************************************)
Limb == 2^16

Long0 == <<0, 0, 0, 0>>

\* a + b (mod 2^64)
Add64(a, b) ==
    LET s1 == a[1] + b[1]
        s2 == a[2] + b[2] + (s1 \div Limb)
        s3 == a[3] + b[3] + (s2 \div Limb)
        s4 == a[4] + b[4] + (s3 \div Limb)
    IN  <<s1 % Limb, s2 % Limb, s3 % Limb, s4 % Limb>>

\* -a (mod 2^64)
Neg64(a) ==
    Add64(<<Limb - 1 - a[1], Limb - 1 - a[2], Limb - 1 - a[3], Limb - 1 - a[4]>>,
          <<1, 0, 0, 0>>)

\* a * n (mod 2^64) for a small n >= 0
MulSmall64(a, n) ==
    LET p1 == a[1] * n
        p2 == a[2] * n + (p1 \div Limb)
        p3 == a[3] * n + (p2 \div Limb)
        p4 == a[4] * n + (p3 \div Limb)
    IN  <<p1 % Limb, p2 % Limb, p3 % Limb, p4 % Limb>>

\* a / 2 rounded down, a taken as unsigned
Half64(a) ==
    <<(a[1] \div 2) + (a[2] % 2) * (Limb \div 2),
      (a[2] \div 2) + (a[3] % 2) * (Limb \div 2),
      (a[3] \div 2) + (a[4] % 2) * (Limb \div 2),
      a[4] \div 2>>

RECURSIVE AddTimes64(_, _, _)
\* a + n*b (mod 2^64)
AddTimes64(a, b, n) == IF n = 0 THEN a ELSE AddTimes64(Add64(a, b), b, n - 1)

\* The literal 0xFFFFFFFF of the scatter statements.
ForceScale == <<Limb - 1, Limb - 1, 0, 0>>

\* (long) (f*0xFFFFFFFF) for the real f = h/2: the product truncated toward
\* zero (real taken as double, which holds these products exactly).
ToFixedPoint(h) ==
    LET mag == Half64(MulSmall64(ForceScale, IF h < 0 THEN -h ELSE h))
    IN  IF h < 0 THEN Neg64(mag) ELSE mag

(***************************************************************************)
(* What a snippet leaves behind for one bond: its increment of `energy`    *)
(* and its vector `force`, both in halves.  The text is opaque to the      *)
(* object; these are the values two sample snippets compute.               *)
(***************************************************************************)
SnippetEnergy(src) == IF src = "snipA" THEN 2 ELSE 3

SnippetForce(src) ==
    IF src = "snipA" THEN [x |-> 2, y |-> -1, z |-> 3]
    ELSE [x |-> -3, y |-> 4, z |-> 1]

ForceValues ==
    UNION {{SnippetForce(src).x, SnippetForce(src).y, SnippetForce(src).z} :
              src \in Snippets}

(***************************************************************************)
(* initialize, first half: the lists of atom indices.                      *)
(***************************************************************************)
\* sizeof(unsigned int), the element type of CudaArray::create<unsigned int>
ElementSize == 4

\* int width = max(numAtoms-startAtom, 4); if (width == 3) width = 4;
Width(numAtoms, startAtom) ==
    LET width == Max(numAtoms - startAtom, 4)
    IN  IF width = 3 THEN 4 ELSE width

\* forceAtoms[i][bond][startAtom+atom]; past the record's end the read is
\* outside the vector and its value is indeterminate.
ReadBondAtom(bonds, bond, slot) ==
    IF slot < Len(bonds[bond + 1]) THEN bonds[bond + 1][slot + 1]
    ELSE Indeterminate

\* indexVec of one block, and the CudaArray it is uploaded to.
PackBlock(bonds, startAtom, width) ==
    LET numBonds == Len(bonds)
    IN  [elementSize |-> ElementSize,
         size |-> width * numBonds,
         data |-> [e \in 1..(width * numBonds) |->
                      ReadBondAtom(bonds, (e - 1) \div width,
                                   startAtom + ((e - 1) % width))]]

RECURSIVE PackTerm(_, _)
\* while (startAtom < numAtoms) { ...; startAtom += width; }
PackTerm(bonds, startAtom) ==
    LET numAtoms == Len(bonds[1])
        width == Width(numAtoms, startAtom)
    IN  IF startAtom < numAtoms
        THEN <<PackBlock(bonds, startAtom, width)>>
                 \o PackTerm(bonds, startAtom + width)
        ELSE <<>>

\* atomIndices.resize(numForces), then the blocks of term i pushed onto
\* atomIndices[i].
BuildAtomIndices(indices, atoms) ==
    [i \in 1..Len(atoms) |->
        (IF i <= Len(indices) THEN indices[i] ELSE <<>>) \o PackTerm(atoms[i], 0)]

\* atomIndices[force][i]->getElementSize()/4
IndexWidth(block) == block.elementSize \div 4

\* "unsigned int"+(indexWidth == 1 ? "" : context.intToString(indexWidth))
IndexType(block) ==
    <<"unsigned int">>
        \o (IF IndexWidth(block) = 1 THEN <<>> ELSE intToString(IndexWidth(block)))

(***************************************************************************)
(* initialize, second half, and createForceSource: the kernel text, kept   *)
(* as its parameter list and the statements of each term's body.           *)
(***************************************************************************)
FixedParams ==
    <<[type |-> <<"long">>, name |-> <<"forceBuffer">>],
      [type |-> <<"real">>, name |-> <<"energyBuffer">>],
      [type |-> <<"const real4">>, name |-> <<"posq">>],
      [type |-> <<"int">>, name |-> <<"groups">>]>>

\* ", const "<<indexType<<"* __restrict__ atomIndices"<<force<<"_"<<i
IndexParams(indices) ==
    Concat([f \in 1..Len(indices) |->
               [i \in 1..Len(indices[f]) |->
                   [type |-> <<"const">> \o IndexType(indices[f][i]),
                    name |-> <<"atomIndices">> \o StreamInt(f - 1) \o <<"_">>
                                 \o StreamInt(i - 1)]]])

\* ", "<<argTypes[i]<<"* customArg"<<(i+1)
CustomParams(types) ==
    [i \in 1..Len(types) |->
        [type |-> <<types[i]>>, name |-> <<"customArg">> \o StreamInt(i)]]

RECURSIVE UnpackDecls(_, _, _)
\* The declarations "unsigned int atom<startAtom+j+1> = atoms<i><suffix[j]>"
\* of blocks i.. of one term; lane j of block i.
UnpackDecls(blocks, i, startAtom) ==
    IF i > Len(blocks) THEN <<>>
    ELSE LET indexWidth == IndexWidth(blocks[i])
         IN  [j \in 1..indexWidth |->
                 [atom |-> startAtom + (j - 1) + 1, block |-> i - 1,
                  lane |-> j - 1, width |-> indexWidth]]
                 \o UnpackDecls(blocks, i + 1, startAtom + indexWidth)

\* The three atomicAdd statements emitted for each of the numAtoms atoms.
ScatterStatements(numAtoms) ==
    Concat([i \in 1..numAtoms |->
               <<[atom |-> i, plane |-> 0, comp |-> "x"],
                 [atom |-> i, plane |-> 1, comp |-> "x"],
                 [atom |-> i, plane |-> 2, comp |-> "x"]>>])

\* createForceSource guarding the term by its index instead of its group.
CreateForceSourceIndexMask(blocks, forceIndex, numBonds, numAtoms, group, computeForce) ==
    [force |-> forceIndex,
     mask |-> 2^forceIndex,
     numBonds |-> numBonds,
     decls |-> UnpackDecls(blocks, 1, 0),
     snippet |-> computeForce,
     scatter |-> ScatterStatements(numAtoms)]

\* createForceSource: the guarded grid-stride loop of one term.  (Its reads
\* "buffers = bufferIndices<f>[index]" and "pos<j+1> = posq[atom<j+1>]" write
\* nothing and are left out.)
CreateForceSource(blocks, forceIndex, numBonds, numAtoms, group, computeForce) ==
    [force |-> forceIndex,
     mask |-> 2^group,
     numBonds |-> numBonds,
     decls |-> UnpackDecls(blocks, 1, 0),
     snippet |-> computeForce,
     scatter |-> ScatterStatements(numAtoms)]

RECURSIVE MaxBondsAfter(_, _)
\* maxBonds = max(maxBonds, numBonds), once per term
MaxBondsAfter(m, atoms) ==
    IF atoms = <<>> THEN m ELSE MaxBondsAfter(Max(m, Len(Head(atoms))), Tail(atoms))

\* The text handed to context.createModule.
KernelText(prefix, indices, types, atoms, grps, sources) ==
    [prefix |-> prefix,
     params |-> FixedParams \o IndexParams(indices) \o CustomParams(types),
     body |-> [f \in 1..Len(atoms) |->
                  CreateForceSource(indices[f], f - 1, Len(atoms[f]),
                                    Len(atoms[f][1]), grps[f], sources[f])]]

(***************************************************************************)
(* The device buffers before any launch, and a lane that is not running.   *)
(***************************************************************************)
ForceSlots == 0..(3 * PaddedNumAtoms - 1)

Lanes == 0..(NumLanes - 1)

PriorForce == [s \in ForceSlots |-> <<s + 1, 0, 0, 0>>]

PriorEnergy == [l \in Lanes |-> l + 1]

IdleLane ==
    [ph |-> "idle", t |-> 0, index |-> 0, k |-> 0, energy |-> 0,
     atom |-> <<>>, tmp |-> 0]

\* The slots an atomicAdd statement can address: those of the force buffer,
\* and (as one more) any address outside it.
AddressedSlots == 0..(3 * PaddedNumAtoms)

NoneScattered == [s \in AddressedSlots |-> [h \in ForceValues |-> 0]]

Call(op, args, ret) == [op |-> op, args |-> args, ret |-> ret]

(***************************************************************************)
(* The object after its constructor.                                       *)
(***************************************************************************)
Init ==
    /\ forceAtoms = <<>>
    /\ forceSource = <<>>
    /\ forceGroup = <<>>
    /\ arguments = <<>>
    /\ argTypes = <<>>
    /\ prefixCode = <<>>
    /\ atomIndices = <<>>
    /\ maxBonds = 0
    /\ kernel = None
    /\ forceBuffer = PriorForce
    /\ energyBuffer = PriorEnergy
    /\ lastCall = Call("constructor", <<>>, <<>>)
    /\ argumentCalls = <<>>
    /\ groups = 0
    /\ lane = [l \in Lanes |-> IdleLane]
    /\ scattered = NoneScattered

(***************************************************************************)
(* The public calls.  An exception out of initialize ends the setup of the *)
(* context that owns the object: no call follows it.                       *)
(***************************************************************************)
Live == lastCall.ret # <<"throws">>

\* addInteraction without its test of atoms.size().
addInteractionUnchecked(atoms, source, group) ==
    /\ Live
    /\ Len(forceGroup) < MaxTerms
    /\ forceAtoms' = Append(forceAtoms, atoms)
    /\ forceSource' = Append(forceSource, source)
    /\ forceGroup' = Append(forceGroup, group)
    /\ lastCall' = Call("addInteraction", <<atoms, source, group>>, <<>>)
    /\ UNCHANGED <<arguments, argTypes, prefixCode, atomIndices, maxBonds,
                   kernel, bufferVars, argumentCalls, launchVars>>

addInteraction(atoms, source, group) ==
    /\ Live
    /\ atoms # <<>> => Len(forceGroup) < MaxTerms
    /\ IF Len(atoms) > 0
       THEN /\ forceAtoms' = Append(forceAtoms, atoms)
            /\ forceSource' = Append(forceSource, source)
            /\ forceGroup' = Append(forceGroup, group)
       ELSE UNCHANGED <<forceAtoms, forceSource, forceGroup>>
    /\ lastCall' = Call("addInteraction", <<atoms, source, group>>, <<>>)
    /\ UNCHANGED <<arguments, argTypes, prefixCode, atomIndices, maxBonds,
                   kernel, bufferVars, argumentCalls, launchVars>>

\* addArgument naming the argument by the count before its insertion.
addArgumentCountedBefore(data, type) ==
    /\ Live
    /\ Len(arguments) < MaxArgs
    /\ arguments' = Append(arguments, data)
    /\ argTypes' = Append(argTypes, type)
    /\ LET name == <<"customArg">> \o intToString(Len(arguments))
       IN  /\ lastCall' = Call("addArgument", <<data, type>>, name)
           /\ argumentCalls' = Append(argumentCalls, [type |-> type, ret |-> name])
    /\ UNCHANGED <<forceAtoms, forceSource, forceGroup, prefixCode,
                   atomIndices, maxBonds, kernel, bufferVars, launchVars>>

addArgument(data, type) ==
    /\ Live
    /\ Len(arguments) < MaxArgs
    /\ arguments' = Append(arguments, data)
    /\ argTypes' = Append(argTypes, type)
    /\ LET name == <<"customArg">> \o intToString(Len(arguments'))
       IN  /\ lastCall' = Call("addArgument", <<data, type>>, name)
           /\ argumentCalls' = Append(argumentCalls, [type |-> type, ret |-> name])
    /\ UNCHANGED <<forceAtoms, forceSource, forceGroup, prefixCode,
                   atomIndices, maxBonds, kernel, bufferVars, launchVars>>

addPrefixCode(source) ==
    /\ Live
    /\ Len(prefixCode) < MaxPrefix
    /\ prefixCode' = Append(prefixCode, source)
    /\ lastCall' = Call("addPrefixCode", <<source>>, <<>>)
    /\ UNCHANGED <<forceAtoms, forceSource, forceGroup, arguments, argTypes,
                   atomIndices, maxBonds, kernel, bufferVars, argumentCalls,
                   launchVars>>

\* compiles: whether context.createModule returns a module or throws.
initialize(compiles) ==
    LET numForces == Len(forceAtoms)
        indices == BuildAtomIndices(atomIndices, forceAtoms)
    IN  /\ Live
        /\ IF numForces = 0
           THEN /\ compiles
                /\ UNCHANGED hostVars
                /\ lastCall' = Call("initialize", <<>>, <<>>)
           ELSE /\ \A i \in 1..numForces : Len(indices[i]) <= MaxBlocks
                /\ atomIndices' = indices
                /\ maxBonds' = MaxBondsAfter(maxBonds, forceAtoms)
                /\ IF compiles
                   THEN /\ kernel' =
                              [id |-> kernel.id + 1,
                               text |-> KernelText(prefixCode, indices, argTypes,
                                                   forceAtoms, forceGroup,
                                                   forceSource)]
                        /\ forceAtoms' = <<>>
                        /\ forceSource' = <<>>
                        /\ lastCall' = Call("initialize", <<>>, <<>>)
                   ELSE /\ UNCHANGED <<kernel, forceAtoms, forceSource>>
                        /\ lastCall' = Call("initialize", <<>>, <<"throws">>)
                /\ UNCHANGED <<forceGroup, arguments, argTypes, prefixCode>>
        /\ UNCHANGED <<bufferVars, argumentCalls, launchVars>>

\* The body of computeInteractions is commented out: nothing is launched.
computeInteractions(g) ==
    /\ Live
    /\ lastCall' = Call("computeInteractions", <<g>>, <<>>)
    /\ UNCHANGED <<hostVars, bufferVars, argumentCalls, launchVars>>

DevicePtrs == {"devA"}

Next ==
    \/ \E term \in TermInputs : addInteraction(term[1], term[2], term[3])
    \/ \E data \in DevicePtrs, type \in ArgTypes : addArgument(data, type)
    \/ \E source \in PrefixTexts : addPrefixCode(source)
    \/ \E compiles \in BOOLEAN : initialize(compiles)
    \/ \E g \in ComputeMasks : computeInteractions(g)

Spec == Init /\ [][Next]_vars

(***************************************************************************)
(* The kernel body's unpacking of one term's blocks for bond `index`: the  *)
(* value of atom<slot+1>, from "atoms<i> = atomIndices<f>_<i>[index]" and  *)
(* "atom<n> = atoms<i><suffix[j]>".                                        *)
(***************************************************************************)
Unpack(blocks, index, slot) ==
    LET decls == UnpackDecls(blocks, 1, 0)
        ds == {i \in 1..Len(decls) : decls[i].atom = slot + 1}
    IN  IF ds = {} THEN Undeclared
        ELSE LET d == decls[CHOOSE i \in ds : TRUE]
             IN  blocks[d.block + 1].data[index * d.width + d.lane + 1]

\* The blocks an initialize step pushed onto atomIndices[f].
NewBlocks(f) ==
    SubSeq(atomIndices'[f],
           (IF f <= Len(atomIndices) THEN Len(atomIndices[f]) ELSE 0) + 1,
           Len(atomIndices'[f]))

\* A step of initialize that packed at least one term.
PackingStep == lastCall'.op = "initialize" /\ forceAtoms # <<>>

\* The lanes per bond of a block holding numBonds bonds.
BlockWidth(block, numBonds) == block.size \div numBonds

RECURSIVE BlockOffset(_, _, _)
\* The atom slot at which block i of a term's blocks starts.
BlockOffset(blocks, numBonds, i) ==
    IF i = 1 THEN 0
    ELSE BlockOffset(blocks, numBonds, i - 1)
             + BlockWidth(blocks[i - 1], numBonds)

\* C1: the blocks initialize builds for a term, unpacked as the kernel body
\* unpacks them, give back bondRecords[b][s] for every bond b and slot s,
\* and packing reads no bond record at a slot >= A.
C1_PackUnpackRoundTrip ==
    [][PackingStep =>
          \A f \in 1..Len(forceAtoms) :
              /\ \A b \in 1..Len(forceAtoms[f]) :
                     \A s \in 1..Len(forceAtoms[f][1]) :
                         Unpack(NewBlocks(f), b - 1, s - 1) = forceAtoms[f][b][s]
              /\ \A i \in 1..Len(NewBlocks(f)) :
                     \A e \in 1..NewBlocks(f)[i].size :
                         NewBlocks(f)[i].data[e] # Indeterminate]_vars

\* The width C2 states for the block at offset o of a term of arity A.
StatedWidth(A, o) == IF A - o < 4 /\ A - o # 3 THEN A - o ELSE 4

\* C2: the lane width chosen at offset o is 4, except for a final block with
\* A - o < 4 and A - o # 3, where it is A - o; so every block has width 1, 2
\* or 4.
C2_LaneWidths ==
    [][PackingStep =>
          \A f \in 1..Len(forceAtoms) :
              \A i \in 1..Len(NewBlocks(f)) :
                  LET numBonds == Len(forceAtoms[f])
                      width == BlockWidth(NewBlocks(f)[i], numBonds)
                  IN  /\ width = StatedWidth(Len(forceAtoms[f][1]),
                                             BlockOffset(NewBlocks(f), numBonds, i))
                      /\ width \in {1, 2, 4}]_vars

(***************************************************************************)
(* What one launch with bitmask g is stated to add to the buffers, summed  *)
(* over the energy slots and over each plane of the force buffer.          *)
(***************************************************************************)
Enabled(g, group) == BitAnd(g, 2^group) # 0

RECURSIVE EnergySum(_, _)
\* The sum of the energy slots 0..l.
EnergySum(buf, l) == IF l < 0 THEN 0 ELSE buf[l] + EnergySum(buf, l - 1)

RECURSIVE PlaneSum(_, _, _)
\* The sum (mod 2^64) of the slots of atoms 0..a of one plane.
PlaneSum(buf, plane, a) ==
    IF a < 0 THEN Long0
    ELSE Add64(buf[a + plane * PaddedNumAtoms], PlaneSum(buf, plane, a - 1))

RECURSIVE StatedEnergy(_, _, _, _)
\* Terms 1..f of the kernel text: numBonds energy increments per enabled term.
StatedEnergy(text, grps, g, f) ==
    IF f = 0 THEN 0
    ELSE StatedEnergy(text, grps, g, f - 1)
             + (IF Enabled(g, grps[f])
                THEN text.body[f].numBonds * SnippetEnergy(text.body[f].snippet)
                ELSE 0)

RECURSIVE StatedPlane(_, _, _, _, _, _)
\* Terms 1..f: one increment of the plane's component per bond and atom of
\* each enabled term, added to `acc`.
StatedPlane(acc, comp, text, grps, g, f) ==
    IF f = 0 THEN acc
    ELSE LET term == text.body[f]
             rest == StatedPlane(acc, comp, text, grps, g, f - 1)
         IN  IF Enabled(g, grps[f])
             THEN AddTimes64(rest, ToFixedPoint(SnippetForce(term.snippet)[comp]),
                             term.numBonds * (Len(term.scatter) \div 3))
             ELSE rest

\* C3: once the kernel is built, computeInteractions(groups) launches it: each
\* term whose group bit is set adds its energy increment and its force
\* increments once per bond record.
C3_ComputeAppliesEnabledTerms ==
    [][(lastCall'.op = "computeInteractions" /\ kernel.id # 0) =>
          LET g == lastCall'.args[1]
              n == Len(kernel.text.body)
          IN  /\ EnergySum(energyBuffer', NumLanes - 1)
                     = EnergySum(energyBuffer, NumLanes - 1)
                           + StatedEnergy(kernel.text, forceGroup, g, n)
              /\ \A p \in 0..2 :
                     PlaneSum(forceBuffer', p, PaddedNumAtoms - 1)
                         = StatedPlane(PlaneSum(forceBuffer, p, PaddedNumAtoms - 1),
                                       <<"x", "y", "z">>[p + 1], kernel.text,
                                       forceGroup, g, n)]_vars

\* C5: once initialize has produced the kernel, no later call replaces it or
\* changes the packed index blocks.
C5_KernelBuiltOnce ==
    [][kernel.id # 0 => kernel' = kernel /\ atomIndices' = atomIndices]_vars

\* C10: forceAtoms, forceSource and forceGroup always have the same length.
C10_TermListsAligned ==
    /\ Len(forceAtoms) = Len(forceSource)
    /\ Len(forceSource) = Len(forceGroup)

\* C7: addInteraction with an empty list of bond records changes nothing;
\* with a non-empty list it appends that one term (records, snippet, group)
\* after the terms already registered, and leaves the argument and prefix
\* lists alone.
C7_AddInteractionEffect ==
    [][lastCall'.op = "addInteraction" =>
          LET atoms == lastCall'.args[1]
              source == lastCall'.args[2]
              group == lastCall'.args[3]
          IN  /\ UNCHANGED <<arguments, argTypes, prefixCode, atomIndices,
                             maxBonds, kernel, bufferVars>>
              /\ IF atoms = <<>>
                 THEN UNCHANGED <<forceAtoms, forceSource, forceGroup>>
                 ELSE /\ forceAtoms' = Append(forceAtoms, atoms)
                      /\ forceSource' = Append(forceSource, source)
                      /\ forceGroup' = Append(forceGroup, group)]_vars

\* An empty addInteraction was made while two terms and an argument were stored.
C7_Witness ==
    /\ lastCall.op = "addInteraction"
    /\ lastCall.args[1] = <<>>
    /\ Len(forceAtoms) = 2
    /\ Len(arguments) = 1

\* The parameters customArg<n> of a kernel text, in order.
CustomParamsOf(text) ==
    SubSeq(text.params, Len(FixedParams) + 1 +
               Len(SelectSeq(SubSeq(text.params, Len(FixedParams) + 1,
                                    Len(text.params)),
                             LAMBDA p : p.name[1] = "atomIndices")),
           Len(text.params))

\* C8: the k-th addArgument call returns customArg<k>, the names returned are
\* distinct, and a kernel signature emitted by initialize declares, for the
\* k-th registered buffer, that name with that call's type, in order.
C8_ArgumentNames ==
    [][/\ \A k \in 1..Len(argumentCalls') :
              argumentCalls'[k].ret = <<"customArg">> \o intToString(k)
       /\ \A j, k \in 1..Len(argumentCalls') :
              j # k => argumentCalls'[j].ret # argumentCalls'[k].ret
       /\ kernel' # kernel =>
              /\ Len(CustomParamsOf(kernel'.text)) = Len(argumentCalls)
              /\ \A k \in 1..Len(argumentCalls) :
                     /\ CustomParamsOf(kernel'.text)[k].name = argumentCalls[k].ret
                     /\ CustomParamsOf(kernel'.text)[k].type
                            = <<argumentCalls[k].type>>]_vars

\* A kernel was built after two addArgument calls with different types.
C8_Witness ==
    /\ kernel.id # 0
    /\ Len(CustomParamsOf(kernel.text)) = 2
    /\ argumentCalls[1].type # argumentCalls[2].type

\* C9: the scatter statements of a term send the x, y and z components of
\* the force to the planes at atom, atom+PADDED_NUM_ATOMS and
\* atom+2*PADDED_NUM_ATOMS.
C9_ScatterComponents ==
    kernel.id # 0 =>
        \A f \in 1..Len(kernel.text.body) :
            \A k \in 1..Len(kernel.text.body[f].scatter) :
                LET stmt == kernel.text.body[f].scatter[k]
                IN  stmt.comp = <<"x", "y", "z">>[stmt.plane + 1]

(***************************************************************************)
(* One launch of computeBondedForces: NumLanes lanes run the emitted body  *)
(* with the argument `groups`.  Each lane has                              *)
(*   index = blockIdx.x*blockDim.x+threadIdx.x = its lane number,          *)
(*   blockDim.x*gridDim.x = NumLanes.                                      *)
(* The kernels launched are those a fresh object builds from these terms.  *)
(***************************************************************************)
KernelInputs ==
    LET t1 == <<BondList(1, 3), "snipA", 0>>
        t2 == <<BondList(2, 1), "snipB", 1>>
    IN  {<<t1>>, <<t2>>, <<t1, t2>>, <<t2, t1>>, <<t2, t2>>}

InitKernel ==
    \E terms \in KernelInputs, g \in GroupMasks :
        LET atoms == [f \in 1..Len(terms) |-> terms[f][1]]
            sources == [f \in 1..Len(terms) |-> terms[f][2]]
            grps == [f \in 1..Len(terms) |-> terms[f][3]]
            indices == BuildAtomIndices(<<>>, atoms)
        IN  /\ forceAtoms = <<>>
            /\ forceSource = <<>>
            /\ forceGroup = grps
            /\ arguments = <<>>
            /\ argTypes = <<>>
            /\ prefixCode = <<>>
            /\ atomIndices = indices
            /\ maxBonds = MaxBondsAfter(0, atoms)
            /\ kernel = [id |-> 1,
                         text |-> KernelText(<<>>, indices, <<>>, atoms, grps,
                                             sources)]
            /\ forceBuffer = PriorForce
            /\ energyBuffer = PriorEnergy
            /\ lastCall = Call("initialize", <<>>, <<>>)
            /\ argumentCalls = <<>>
            /\ groups = g
            /\ lane = [l \in Lanes |-> [IdleLane EXCEPT !.ph = "guard", !.t = 1]]
            /\ scattered = NoneScattered

NumTerms == Len(kernel.text.body)

\* The lane's position once it leaves term t: the guard of the next term,
\* or the epilogue.
AfterTerm(rec) ==
    IF rec.t < NumTerms
    THEN [rec EXCEPT !.ph = "guard", !.t = rec.t + 1]
    ELSE [rec EXCEPT !.ph = "epilogue", !.t = rec.t + 1]

\* The unsigned ints an indeterminate or undeclared atom index may be: an
\* atom, or a value past the atoms, which sends the slots of its x and y
\* planes into the next plane and that of its z plane outside the buffer.
StrayAtoms == 0..PaddedNumAtoms

\* The values atom1..atomA can have in the body of term t for bond `index`:
\* what the declarations unpack; any value where the block holds an
\* indeterminate one or the text declares no such identifier.
AtomValues(t, index) ==
    LET numAtoms == Len(kernel.text.body[t].scatter) \div 3
    IN  {env \in [1..numAtoms -> StrayAtoms] :
            \A s \in 1..numAtoms :
                Unpack(atomIndices[t], index, s - 1) \in Atoms
                    => env[s] = Unpack(atomIndices[t], index, s - 1)}

\* &forceBuffer[i]: the slot, or the one standing for an address outside.
Addressed(i) == IF i \in ForceSlots THEN i ELSE 3 * PaddedNumAtoms

\* A store of the increment over the value the slot had at launch.
AtomicAddOverwriting(buf, slot, inc) ==
    IF slot \in DOMAIN buf
    THEN [buf EXCEPT ![slot] = Add64(PriorForce[slot], inc)]
    ELSE buf

\* atomicAdd(&forceBuffer[slot], inc); an address outside the buffer leaves
\* the buffer as it is.
AtomicAdd(buf, slot, inc) ==
    IF slot \in DOMAIN buf THEN [buf EXCEPT ![slot] = Add64(@, inc)] ELSE buf

\* if ((groups&mask) != 0) for (index = lane; index < numBonds; ...)
LaneGuard(l) ==
    LET rec == lane[l]
        term == kernel.text.body[rec.t]
    IN  /\ rec.ph = "guard"
        /\ lane' = [lane EXCEPT ![l] =
                       IF BitAnd(groups, term.mask) # 0 /\ l < term.numBonds
                       THEN [rec EXCEPT !.ph = "body", !.index = l]
                       ELSE AfterTerm(rec)]
        /\ UNCHANGED <<hostVars, bufferVars, lastCall, argumentCalls, groups,
                       scattered>>

\* The unpacking of the atoms and the snippet, for one bond.
LaneBody(l) ==
    LET rec == lane[l]
        term == kernel.text.body[rec.t]
    IN  /\ rec.ph = "body"
        /\ \E env \in AtomValues(rec.t, rec.index) :
               lane' = [lane EXCEPT ![l] =
                           [rec EXCEPT !.ph = "scatter", !.k = 1, !.atom = env,
                                       !.energy = @ + SnippetEnergy(term.snippet)]]
        /\ UNCHANGED <<hostVars, bufferVars, lastCall, argumentCalls, groups,
                       scattered>>

\* One atomicAdd statement; after the last, index += blockDim.x*gridDim.x.
LaneAtomicAdd(l) ==
    LET rec == lane[l]
        term == kernel.text.body[rec.t]
        stmt == term.scatter[rec.k]
        slot == Addressed(rec.atom[stmt.atom] + stmt.plane * PaddedNumAtoms)
        h == SnippetForce(term.snippet)[stmt.comp]
    IN  /\ rec.ph = "scatter"
        /\ forceBuffer' = AtomicAdd(forceBuffer, slot, ToFixedPoint(h))
        /\ scattered' = [scattered EXCEPT ![slot][h] = @ + 1]
        /\ lane' = [lane EXCEPT ![l] =
                       IF rec.k < Len(term.scatter)
                       THEN [rec EXCEPT !.k = rec.k + 1]
                       ELSE IF rec.index + NumLanes < term.numBonds
                       THEN [rec EXCEPT !.ph = "body",
                                        !.index = rec.index + NumLanes]
                       ELSE AfterTerm(rec)]
        /\ UNCHANGED <<hostVars, energyBuffer, lastCall, argumentCalls, groups>>

\* energyBuffer[lane] += energy: the read ...
LaneEnergyRead(l) ==
    /\ lane[l].ph = "epilogue"
    /\ lane' = [lane EXCEPT ![l] = [@ EXCEPT !.ph = "store", !.tmp = energyBuffer[l]]]
    /\ UNCHANGED <<hostVars, bufferVars, lastCall, argumentCalls, groups,
                   scattered>>

\* ... and the write.
LaneEnergyWrite(l) ==
    /\ lane[l].ph = "store"
    /\ energyBuffer' = [energyBuffer EXCEPT ![l] = lane[l].tmp + lane[l].energy]
    /\ lane' = [lane EXCEPT ![l] = [@ EXCEPT !.ph = "done"]]
    /\ UNCHANGED <<hostVars, forceBuffer, lastCall, argumentCalls, groups,
                   scattered>>

NextKernel ==
    \/ \E l \in Lanes : LaneGuard(l)
    \/ \E l \in Lanes : LaneBody(l)
    \/ \E l \in Lanes : LaneAtomicAdd(l)
    \/ \E l \in Lanes : LaneEnergyRead(l)
    \/ \E l \in Lanes : LaneEnergyWrite(l)

SpecKernel == InitKernel /\ [][NextKernel]_vars

AllDone == \A l \in Lanes : lane[l].ph = "done"

(***************************************************************************)
(* Claims about one launch.                                                *)
(***************************************************************************)
RECURSIVE CountValue(_, _)
\* The number of increments of force value h added to the slots 0..s.
CountValue(h, s) ==
    IF s < 0 THEN 0 ELSE scattered[s][h] + CountValue(h, s - 1)

RECURSIVE EnabledCount(_, _)
\* The number of increments of force value h that the terms 1..f whose
\* registered group is set in `groups` add: one per bond and statement.
EnabledCount(h, f) ==
    IF f = 0 THEN 0
    ELSE LET term == kernel.text.body[f]
             stmts == {k \in 1..Len(term.scatter) :
                          SnippetForce(term.snippet)[term.scatter[k].comp] = h}
         IN  EnabledCount(h, f - 1)
                 + (IF Enabled(groups, forceGroup[f])
                    THEN term.numBonds * Cardinality(stmts)
                    ELSE 0)

RECURSIVE ScatteredInto(_, _, _)
\* acc plus the increments counted in `counts`, over the force values in S.
ScatteredInto(acc, counts, S) ==
    IF S = {} THEN acc
    ELSE LET h == CHOOSE v \in S : TRUE
         IN  ScatteredInto(AddTimes64(acc, ToFixedPoint(h), counts[h]), counts,
                           S \ {h})

RECURSIVE CountAll(_, _)
\* The number of increments counted in `counts`, over the force values in S.
CountAll(counts, S) ==
    IF S = {} THEN 0
    ELSE LET h == CHOOSE v \in S : TRUE IN counts[h] + CountAll(counts, S \ {h})

RECURSIVE SlotsCount(_)
\* The number of increments added to the addressed slots 0..s.
SlotsCount(s) ==
    IF s < 0 THEN 0 ELSE CountAll(scattered[s], ForceValues) + SlotsCount(s - 1)

RECURSIVE LaunchStatements(_)
\* The atomicAdd statements one launch executes in the terms 1..f.
LaunchStatements(f) ==
    IF f = 0 THEN 0
    ELSE LaunchStatements(f - 1)
             + (IF BitAnd(groups, kernel.text.body[f].mask) # 0
                THEN kernel.text.body[f].numBonds * Len(kernel.text.body[f].scatter)
                ELSE 0)

RECURSIVE LaneEnergy(_, _)
\* The energy lane l accumulates over the terms 1..f: one increment for each
\* bond index l, l+NumLanes, ... below numBonds.
LaneEnergy(l, f) ==
    IF f = 0 THEN 0
    ELSE LET term == kernel.text.body[f]
         IN  LaneEnergy(l, f - 1)
                 + (IF BitAnd(groups, term.mask) # 0
                    THEN Cardinality({i \in 0..(term.numBonds - 1) :
                                         i % NumLanes = l})
                             * SnippetEnergy(term.snippet)
                    ELSE 0)

\* C6: whatever the interleaving of the lanes, every force-buffer slot holds
\* its prior value plus the sum of the increments scattered to it, no
\* increment is lost, and an energy slot is written by its own lane only,
\* once, with that lane's energy.
C6_AtomicAccumulation ==
    /\ \A s \in ForceSlots :
           forceBuffer[s] = ScatteredInto(PriorForce[s], scattered[s], ForceValues)
    /\ \A l \in Lanes :
           energyBuffer[l] =
               IF lane[l].ph = "done"
               THEN PriorEnergy[l] + LaneEnergy(l, NumTerms)
               ELSE PriorEnergy[l]
    /\ AllDone => SlotsCount(3 * PaddedNumAtoms) = LaunchStatements(NumTerms)

\* Two lanes are about to add to the same slot, which already received an
\* increment.
C6_Witness ==
    \E l1, l2 \in Lanes :
        /\ l1 # l2
        /\ lane[l1].ph = "scatter"
        /\ lane[l2].ph = "scatter"
        /\ LET s1 == kernel.text.body[lane[l1].t].scatter[lane[l1].k]
               s2 == kernel.text.body[lane[l2].t].scatter[lane[l2].k]
               slot1 == lane[l1].atom[s1.atom] + s1.plane * PaddedNumAtoms
               slot2 == lane[l2].atom[s2.atom] + s2.plane * PaddedNumAtoms
           IN  /\ slot1 = slot2
               /\ slot1 \in ForceSlots
               /\ CountAll(scattered[slot1], ForceValues) > 0

====
